---- MODULE Spec2Model ----
(***************************************************************************)
(* A model of the DBHub client (src/src/index.js): the constructor, the    *)
(* endpoint table, the seven operation methods, and make_request with its  *)
(* two suspension points (await fetch, await response.json()).  JavaScript *)
(* strings are TLA+ strings; conversions (number and value to string,      *)
(* btoa, JSON parsing) are computed character by character.  The second    *)
(* source file (src/unnamed/part_000) is the same class with four of the   *)
(* seven operations and the same constructor and make_request.             *)
(***************************************************************************)
EXTENDS Integers, Sequences, FiniteSets

\* Number of calls that can be in flight on the handle at once.
MaxCalls == 2

Calls == 1..MaxCalls

(***************************************************************************)
(* JavaScript values that reach the client as arguments.                   *)
(***************************************************************************)
JSUndefined == [t |-> "undefined", s |-> ""]

JSString(s) == [t |-> "string", s |-> s]

JSBoolean(b) == [t |-> "boolean", s |-> IF b THEN "true" ELSE "false"]

\* ToBoolean: undefined and null are falsy, a string is falsy iff it is empty.
Truthy(v) ==
    CASE v.t = "undefined" -> FALSE
      [] v.t = "null" -> FALSE
      [] v.t = "boolean" -> v.s = "true"
      [] v.t = "number" -> v.s \notin {"0", "NaN"}
      [] OTHER -> v.s # ""

\* ToString, as a template literal and FormData.append apply it.
ToString(v) ==
    CASE v.t = "undefined" -> "undefined"
      [] v.t = "null" -> "null"
      [] OTHER -> v.s

DecDigits == "0123456789"

RECURSIVE NumberToString(_)
\* Number::toString of a non-negative integer.
NumberToString(n) ==
    IF n < 10
    THEN SubSeq(DecDigits, n + 1, n + 1)
    ELSE NumberToString(n \div 10) \o SubSeq(DecDigits, (n % 10) + 1, (n % 10) + 1)

\* TRUE iff needle occurs in hay.
Includes(hay, needle) ==
    \E i \in 1..(Len(hay) - Len(needle) + 1) :
        SubSeq(hay, i, i + Len(needle) - 1) = needle

(***************************************************************************)
(* Error objects.  cause is meaningful only when hasCause.                 *)
(***************************************************************************)
NoCause == [name |-> "", message |-> ""]

NewError(name, message) ==
    [name |-> name, message |-> message, hasCause |-> FALSE, cause |-> NoCause]

\* new Error(message, options): the cause is installed from options.cause,
\* and only when options has a property named cause.
NewErrorWithOptions(message, options) ==
    [name |-> "Error", message |-> message,
     hasCause |-> options.hasCause,
     cause |-> IF options.hasCause THEN options.cause ELSE NoCause]

NoError == NewError("", "")

(***************************************************************************)
(* btoa: the host's base64 encoder.  It reads the string as one byte per   *)
(* code unit and throws InvalidCharacterError on a code unit above 255.    *)
(***************************************************************************)
\* Code units 32..95 and 97..126, in order.
AsciiLow == " !\"#$%&'()*+,-./0123456789:;<=>?@ABCDEFGHIJKLMNOPQRSTUVWXYZ[\\]^_"

AsciiHigh == "abcdefghijklmnopqrstuvwxyz{|}~"

IndexIn(table, ch) ==
    IF \E i \in 1..Len(table) : SubSeq(table, i, i) = ch
    THEN CHOOSE i \in 1..Len(table) : SubSeq(table, i, i) = ch
    ELSE 0

\* String.prototype.charCodeAt for the characters the model uses.
CharCode(ch) ==
    CASE IndexIn(AsciiLow, ch) > 0 -> 31 + IndexIn(AsciiLow, ch)
      [] IndexIn(AsciiHigh, ch) > 0 -> 96 + IndexIn(AsciiHigh, ch)
      [] ch = "é" -> 233
      [] ch = "€" -> 8364
      [] OTHER -> 65533

CharCodes(s) == [i \in 1..Len(s) |-> CharCode(SubSeq(s, i, i))]

Base64Alphabet == "ABCDEFGHIJKLMNOPQRSTUVWXYZabcdefghijklmnopqrstuvwxyz0123456789+/"

Base64Char(n) == SubSeq(Base64Alphabet, n + 1, n + 1)

RECURSIVE Base64Encode(_)
\* RFC 4648 base64 of a sequence of bytes, with = padding.
Base64Encode(bytes) ==
    CASE Len(bytes) = 0 -> ""
      [] Len(bytes) = 1 ->
            Base64Char(bytes[1] \div 4) \o Base64Char((bytes[1] % 4) * 16) \o "=="
      [] Len(bytes) = 2 ->
            Base64Char(bytes[1] \div 4)
            \o Base64Char((bytes[1] % 4) * 16 + bytes[2] \div 16)
            \o Base64Char((bytes[2] % 16) * 4) \o "="
      [] OTHER ->
            Base64Char(bytes[1] \div 4)
            \o Base64Char((bytes[1] % 4) * 16 + bytes[2] \div 16)
            \o Base64Char((bytes[2] % 16) * 4 + bytes[3] \div 64)
            \o Base64Char(bytes[3] % 64)
            \o Base64Encode(SubSeq(bytes, 4, Len(bytes)))

\* TRUE iff btoa(s) throws instead of returning.
BtoaThrows(s) == \E i \in 1..Len(s) : CharCodes(s)[i] > 255

btoa(s) == Base64Encode(CharCodes(s))

(***************************************************************************)
(* Response.json(): the JSON documents the model's servers send are flat   *)
(* (a scalar, an array of scalars, an object of scalars, no whitespace and *)
(* no escapes); any other text is a SyntaxError.  A decoded value is       *)
(* [t, s, items]; an item is [k, t, s], with k the key in an object.       *)
(***************************************************************************)
JSONScalar(t, s) == [t |-> t, s |-> s, items |-> <<>>]

NoValue == JSONScalar("undefined", "")

CharAt(s, i) == IF i >= 1 /\ i <= Len(s) THEN SubSeq(s, i, i) ELSE ""

StartsAt(s, i, word) ==
    i + Len(word) - 1 <= Len(s) /\ SubSeq(s, i, i + Len(word) - 1) = word

RECURSIVE DigitsEnd(_, _)
\* The position after the run of digits that starts at i.
DigitsEnd(s, i) ==
    IF CharAt(s, i) # "" /\ IndexIn(DecDigits, CharAt(s, i)) > 0
    THEN DigitsEnd(s, i + 1)
    ELSE i

RECURSIVE QuoteEnd(_, _)
\* The position of the quote that closes a string whose content starts at i,
\* or 0 when the text ends (or an escape starts) first.
QuoteEnd(s, i) ==
    CASE CharAt(s, i) = "" -> 0
      [] CharAt(s, i) = "\\" -> 0
      [] CharAt(s, i) = "\"" -> i
      [] OTHER -> QuoteEnd(s, i + 1)

\* The scalar that starts at i: [ok, t, s, next].
ScalarAt(s, i) ==
    CASE StartsAt(s, i, "null") ->
            [ok |-> TRUE, t |-> "null", s |-> "null", next |-> i + 4]
      [] StartsAt(s, i, "true") ->
            [ok |-> TRUE, t |-> "boolean", s |-> "true", next |-> i + 4]
      [] StartsAt(s, i, "false") ->
            [ok |-> TRUE, t |-> "boolean", s |-> "false", next |-> i + 5]
      [] CharAt(s, i) = "\"" /\ QuoteEnd(s, i + 1) > 0 ->
            LET q == QuoteEnd(s, i + 1) IN
            [ok |-> TRUE, t |-> "string", s |-> SubSeq(s, i + 1, q - 1), next |-> q + 1]
      [] DigitsEnd(s, i) > i ->
            LET d == DigitsEnd(s, i) IN
            [ok |-> TRUE, t |-> "number", s |-> SubSeq(s, i, d - 1), next |-> d]
      [] OTHER -> [ok |-> FALSE, t |-> "", s |-> "", next |-> i]

RECURSIVE ElementsAt(_, _, _)
\* The elements of an array from i on, up to and including its "]".
ElementsAt(s, i, acc) ==
    LET e == ScalarAt(s, i) IN
    CASE ~e.ok -> [ok |-> FALSE, items |-> acc, next |-> i]
      [] CharAt(s, e.next) = "," ->
            ElementsAt(s, e.next + 1, Append(acc, [k |-> "", t |-> e.t, s |-> e.s]))
      [] CharAt(s, e.next) = "]" ->
            [ok |-> TRUE, items |-> Append(acc, [k |-> "", t |-> e.t, s |-> e.s]),
             next |-> e.next + 1]
      [] OTHER -> [ok |-> FALSE, items |-> acc, next |-> e.next]

RECURSIVE MembersAt(_, _, _)
\* The members of an object from i on, up to and including its "}".
MembersAt(s, i, acc) ==
    LET k == ScalarAt(s, i)
        v == ScalarAt(s, k.next + 1)
    IN  CASE ~k.ok \/ k.t # "string" \/ CharAt(s, k.next) # ":" ->
                [ok |-> FALSE, items |-> acc, next |-> i]
          [] ~v.ok -> [ok |-> FALSE, items |-> acc, next |-> k.next + 1]
          [] CharAt(s, v.next) = "," ->
                MembersAt(s, v.next + 1, Append(acc, [k |-> k.s, t |-> v.t, s |-> v.s]))
          [] CharAt(s, v.next) = "}" ->
                [ok |-> TRUE, items |-> Append(acc, [k |-> k.s, t |-> v.t, s |-> v.s]),
                 next |-> v.next + 1]
          [] OTHER -> [ok |-> FALSE, items |-> acc, next |-> v.next]

\* The document that starts at 1: [ok, value, next].
DocumentAt(s) ==
    CASE StartsAt(s, 1, "[]") ->
            [ok |-> TRUE, value |-> [t |-> "array", s |-> "", items |-> <<>>], next |-> 3]
      [] StartsAt(s, 1, "{}") ->
            [ok |-> TRUE, value |-> [t |-> "object", s |-> "", items |-> <<>>], next |-> 3]
      [] CharAt(s, 1) = "[" ->
            LET r == ElementsAt(s, 2, <<>>) IN
            [ok |-> r.ok, value |-> [t |-> "array", s |-> "", items |-> r.items],
             next |-> r.next]
      [] CharAt(s, 1) = "{" ->
            LET r == MembersAt(s, 2, <<>>) IN
            [ok |-> r.ok, value |-> [t |-> "object", s |-> "", items |-> r.items],
             next |-> r.next]
      [] OTHER ->
            LET r == ScalarAt(s, 1) IN
            [ok |-> r.ok, value |-> JSONScalar(r.t, r.s), next |-> r.next]

\* TRUE iff the whole text is one JSON document.
JSONParses(text) ==
    LET d == DocumentAt(text) IN d.ok /\ d.next = Len(text) + 1

\* The decoded value of a text that parses.
JSONParse(text) == DocumentAt(text).value

\* What response.json() rejects with when the text does not parse.
JSONSyntaxError(text) ==
    LET d == DocumentAt(text) IN
    NewError("SyntaxError",
             IF d.next > Len(text)
             THEN "Unexpected end of JSON input"
             ELSE "Unexpected token " \o CharAt(text, d.next)
                  \o " in JSON at position " \o NumberToString(d.next - 1))

(***************************************************************************)
(* The handle.                                                             *)
(***************************************************************************)
version == 1

get_endpoints ==
    [branches  |-> "/v" \o NumberToString(version) \o "/branches",
     columns   |-> "/v" \o NumberToString(version) \o "/columns",
     commits   |-> "/v" \o NumberToString(version) \o "/commits",
     databases |-> "/v" \o NumberToString(version) \o "/databases",
     delete    |-> "/v" \o NumberToString(version) \o "/delete",
     execute   |-> "/v" \o NumberToString(version) \o "/execute",
     query     |-> "/v" \o NumberToString(version) \o "/query"]

\* ApiKeyCheck as a test for undefined alone: the empty string passes.
ApiKeyCheckUndefinedOnly(api_key) == api_key.t # "undefined"

\* The guard of the constructor: it throws when this is FALSE.
ApiKeyCheck(api_key) == Truthy(api_key)

\* The object the constructor builds when the guard passes.
NewHandle(api_key) ==
    [base_url  |-> "https://api.dbhub.io",
     endpoints |-> get_endpoints,
     api_key   |-> api_key]

\* ThisAfterCall for a method that stores the url it built in this.base_url.
ThisAfterCallReassigned(this) ==
    [this EXCEPT !.base_url = "https://api.dbhub.io" \o this.endpoints.databases]

\* make_request and the operation methods read this.base_url, this.endpoints
\* and this.api_key and assign to none of them: this, after any of them ran.
ThisAfterCall(this) == this

\* Values passed to the constructor.
ApiKeyInputs == {JSUndefined, JSString(""), JSString("secret"), JSString("0")}

(***************************************************************************)
(* make_request.                                                           *)
(***************************************************************************)
\* The FormData handed to fetch: apikey is appended first, then one entry
\* per own property of parameters, in order; append never replaces.
FormBody(this, parameters) ==
    <<[name |-> "apikey", value |-> ToString(this.api_key)]>>
    \o [i \in 1..Len(parameters) |->
            [name |-> parameters[i].key, value |-> ToString(parameters[i].value)]]

\* response.ok
ResponseOk(status) == status \in 200..299

\* const {error} = value: the own property named key, undefined when absent.
\* (JSON.parse keeps the last of several members with one key.)
GetProperty(value, key) ==
    LET hits == {i \in 1..Len(value.items) : value.items[i].k = key} IN
    IF value.t = "object" /\ hits # {}
    THEN LET last == CHOOSE i \in hits : \A j \in hits : j <= i
         IN  [t |-> value.items[last].t, s |-> value.items[last].s]
    ELSE JSUndefined

\* ApiErrorMessage with the status left out of the message.
ApiErrorMessageWithoutStatus(error, status) ==
    "DBHub API error message: " \o ToString(error)

\* The message of the error thrown for a response that is not ok.
ApiErrorMessage(error, status) ==
    "DBHub API error message: " \o ToString(error)
    \o " [HTTP status: " \o NumberToString(status) \o "]"

Pending == [kind |-> "pending", value |-> NoValue, error |-> NoError]

Returned(value) == [kind |-> "return", value |-> value, error |-> NoError]

Thrown(error) == [kind |-> "throw", value |-> NoValue, error |-> error]

\* The catch handler of fetch: what make_request throws for a rejection.
FetchFailed(error) == Thrown(NewErrorWithOptions("Fetch failed!", error))

\* SettleJson returning null in place of a decoded value without items.
SettleJsonEmptyAsNull(status, text) ==
    CASE ~JSONParses(text) -> Thrown(JSONSyntaxError(text))
      [] ResponseOk(status) ->
            Returned(IF JSONParse(text).items = <<>>
                     THEN JSONScalar("null", "null")
                     ELSE JSONParse(text))
      [] JSONParse(text).t = "null" ->
            Thrown(NewError("TypeError",
                "Cannot destructure property 'error' of '(intermediate value)' as it is null."))
      [] OTHER ->
            Thrown(NewError("Error",
                ApiErrorMessage(GetProperty(JSONParse(text), "error"), status)))

\* What make_request settles with once response.json() has settled on the
\* body text of a response with this status.
SettleJson(status, text) ==
    CASE ~JSONParses(text) -> Thrown(JSONSyntaxError(text))
      [] ResponseOk(status) -> Returned(JSONParse(text))
      [] JSONParse(text).t = "null" ->
            Thrown(NewError("TypeError",
                "Cannot destructure property 'error' of '(intermediate value)' as it is null."))
      [] OTHER ->
            Thrown(NewError("Error",
                ApiErrorMessage(GetProperty(JSONParse(text), "error"), status)))

NoResponse == [status |-> 0, text |-> ""]

NewCall ==
    [pc |-> "idle", op |-> "", args |-> <<>>, url |-> "", parameters |-> <<>>,
     method |-> "", body |-> <<>>, fetches |-> 0, response |-> NoResponse,
     rejection |-> NoError, bodyRead |-> FALSE, outcome |-> Pending]

\* A call of method op with these arguments, before its first statement.
Invoked(op, args) == [NewCall EXCEPT !.op = op, !.args = args]

\* make_request up to its first await: the body is built and fetch is called.
make_request(this, call, url, parameters) ==
    [call EXCEPT !.pc = "fetch", !.url = url, !.parameters = parameters,
                 !.method = "POST", !.body = FormBody(this, parameters),
                 !.fetches = @ + 1]

\* A call that threw before it reached make_request.
ThrewEarly(call, error) == [call EXCEPT !.pc = "done", !.outcome = Thrown(error)]

(***************************************************************************)
(* The operation methods: the url and the parameters each one builds.      *)
(***************************************************************************)
Param(key, value) == [key |-> key, value |-> value]

get_branches_url(this) == this.base_url \o this.endpoints.branches

get_branches_parameters(dbowner, dbname) ==
    <<Param("dbowner", dbowner), Param("dbname", dbname)>>

get_columns_url(this) == this.base_url \o this.endpoints.columns

get_columns_parameters(dbowner, dbname, table) ==
    <<Param("dbowner", dbowner), Param("dbname", dbname), Param("table", table)>>

\* get_commits_url with the endpoint of get_branches, copied with its body.
get_commits_url_branches(this) == this.base_url \o this.endpoints.branches

get_commits_url(this) == this.base_url \o this.endpoints.commits

get_commits_parameters(dbowner, dbname) ==
    <<Param("dbowner", dbowner), Param("dbname", dbname)>>

get_databases_url(this) == this.base_url \o this.endpoints.databases

\* live = false: the default applies when the argument is undefined.
get_databases_parameters(live) ==
    <<Param("live", IF live.t = "undefined" THEN JSBoolean(FALSE) ELSE live)>>

delete_database_url(this) == this.base_url \o this.endpoints.delete

delete_database_parameters(dbname) == <<Param("dbname", dbname)>>

execute_url(this) == this.base_url \o this.endpoints.execute

execute_parameters(dbowner, dbname, sql) ==
    <<Param("dbowner", dbowner), Param("dbname", dbname),
      Param("sql", JSString(btoa(ToString(sql))))>>

\* query_parameters with the SQL text passed on as it came.
query_parameters_raw(dbowner, dbname, sql) ==
    <<Param("dbowner", dbowner), Param("dbname", dbname), Param("sql", sql)>>

query_url(this) == this.base_url \o this.endpoints.query

query_parameters(dbowner, dbname, sql) ==
    <<Param("dbowner", dbowner), Param("dbname", dbname),
      Param("sql", JSString(btoa(ToString(sql))))>>

\* What btoa throws on a code unit above 255.
InvalidCharacterError ==
    NewError("InvalidCharacterError", "Invalid character")

(***************************************************************************)
(* Inputs.                                                                 *)
(***************************************************************************)
Owners == {JSString("owner")}

Names == {JSString("db"), JSString("db2")}

Tables == {JSString("users")}

Lives == {JSUndefined, JSBoolean(TRUE)}

SqlTexts == {JSString("SELECT 1"), JSString("SELECT 'é'"), JSString("SELECT '€'"),
             JSString("")}

\* Parameter mappings handed to make_request by a caller that calls it itself.
DirectParameters ==
    {<<Param("apikey", JSString("intruder")), Param("live", JSBoolean(FALSE))>>}

\* What the service answers.
Statuses == {200, 204, 404, 500}

Bodies == {"[]", "null", "{\"error\":\"table not found\"}", "<html>", ""}

\* The statuses the concurrent calls are answered with.
ConcurrentStatuses == {200, 404}

\* What fetch rejects with: undici's TypeError carries the socket error as
\* its cause, a browser's TypeError and an AbortError carry none.
Rejections ==
    {[name |-> "TypeError", message |-> "fetch failed", hasCause |-> TRUE,
      cause |-> [name |-> "Error", message |-> "connect ECONNREFUSED"]],
     NewError("TypeError", "Failed to fetch"),
     NewError("AbortError", "This operation was aborted")}

VARIABLES
    handle,     \* <<>> before construction, <<this>> afterwards
    ctor,       \* the last constructor call: its argument and outcome
    calls       \* per call: position, arguments, request, response, outcome

vars == <<handle, ctor, calls>>

NoCtor == [arg |-> JSUndefined, result |-> "none", error |-> NoError]

Init ==
    /\ handle = <<>>
    /\ ctor = NoCtor
    /\ calls = [c \in Calls |-> NewCall]

\* new DBHub(api_key)
Constructor ==
    /\ handle = <<>>
    /\ \E api_key \in ApiKeyInputs :
          IF ~ApiKeyCheck(api_key)
          THEN /\ ctor' = [arg |-> api_key, result |-> "threw",
                           error |-> NewError("Error", "Missing required API key!")]
               /\ handle' = <<>>
          ELSE /\ ctor' = [arg |-> api_key, result |-> "returned", error |-> NoError]
               /\ handle' = <<NewHandle(api_key)>>
    /\ UNCHANGED calls

\* Calls are numbered in the order they are issued.
CanCall(c) ==
    /\ handle # <<>>
    /\ calls[c].pc = "idle"
    /\ \A d \in Calls : d < c => calls[d].pc # "idle"

\* Call c runs (from its start, or from the await it was suspended at) up to
\* its next await or its end; it runs on this.
Run(c, call) ==
    /\ calls' = [calls EXCEPT ![c] = call]
    /\ handle' = <<ThisAfterCall(handle[1])>>
    /\ UNCHANGED ctor

get_branches(c, dbowners, dbnames) ==
    /\ CanCall(c)
    /\ \E dbowner \in dbowners, dbname \in dbnames :
          Run(c, make_request(handle[1],
                              Invoked("get_branches", <<dbowner, dbname>>),
                              get_branches_url(handle[1]),
                              get_branches_parameters(dbowner, dbname)))

get_columns(c, dbowners, dbnames, tables) ==
    /\ CanCall(c)
    /\ \E dbowner \in dbowners, dbname \in dbnames, table \in tables :
          Run(c, make_request(handle[1],
                              Invoked("get_columns", <<dbowner, dbname, table>>),
                              get_columns_url(handle[1]),
                              get_columns_parameters(dbowner, dbname, table)))

get_commits(c, dbowners, dbnames) ==
    /\ CanCall(c)
    /\ \E dbowner \in dbowners, dbname \in dbnames :
          Run(c, make_request(handle[1],
                              Invoked("get_commits", <<dbowner, dbname>>),
                              get_commits_url(handle[1]),
                              get_commits_parameters(dbowner, dbname)))

get_databases(c, lives) ==
    /\ CanCall(c)
    /\ \E live \in lives :
          Run(c, make_request(handle[1],
                              Invoked("get_databases", <<live>>),
                              get_databases_url(handle[1]),
                              get_databases_parameters(live)))

delete_database(c, dbnames) ==
    /\ CanCall(c)
    /\ \E dbname \in dbnames :
          Run(c, make_request(handle[1],
                              Invoked("delete_database", <<dbname>>),
                              delete_database_url(handle[1]),
                              delete_database_parameters(dbname)))

execute(c, dbowners, dbnames, sqls) ==
    /\ CanCall(c)
    /\ \E dbowner \in dbowners, dbname \in dbnames, sql \in sqls :
          IF BtoaThrows(ToString(sql))
          THEN Run(c, ThrewEarly(Invoked("execute", <<dbowner, dbname, sql>>),
                                 InvalidCharacterError))
          ELSE Run(c, make_request(handle[1],
                                   Invoked("execute", <<dbowner, dbname, sql>>),
                                   execute_url(handle[1]),
                                   execute_parameters(dbowner, dbname, sql)))

query(c, dbowners, dbnames, sqls) ==
    /\ CanCall(c)
    /\ \E dbowner \in dbowners, dbname \in dbnames, sql \in sqls :
          IF BtoaThrows(ToString(sql))
          THEN Run(c, ThrewEarly(Invoked("query", <<dbowner, dbname, sql>>),
                                 InvalidCharacterError))
          ELSE Run(c, make_request(handle[1],
                                   Invoked("query", <<dbowner, dbname, sql>>),
                                   query_url(handle[1]),
                                   query_parameters(dbowner, dbname, sql)))

\* A caller that calls make_request itself, with a mapping of its own.
make_request_direct(c, mappings) ==
    /\ CanCall(c)
    /\ \E parameters \in mappings :
          Run(c, make_request(handle[1], Invoked("make_request", <<>>),
                              get_databases_url(handle[1]), parameters))

\* fetch rejects: the catch handler throws, and make_request with it.
FetchReject(c, rejections) ==
    /\ calls[c].pc = "fetch"
    /\ \E error \in rejections :
          Run(c, [calls[c] EXCEPT !.pc = "done", !.rejection = error,
                                  !.outcome = FetchFailed(error)])

\* fetch resolves with the response's status line; on either branch of the
\* status check make_request then calls response.json() and awaits it.
FetchResolve(c, statuses) ==
    /\ calls[c].pc = "fetch"
    /\ \E status \in statuses :
          Run(c, [calls[c] EXCEPT !.pc = "json", !.response.status = status,
                                  !.bodyRead = TRUE])

\* response.json() settles on the body that arrived.
JsonSettle(c, bodies) ==
    /\ calls[c].pc = "json"
    /\ \E text \in bodies :
          Run(c, [calls[c] EXCEPT !.pc = "done", !.response.text = text,
                                  !.outcome = SettleJson(calls[c].response.status, text)])

\* The caller has taken the outcome of call c.  With one call at a time, the
\* next call is again call c.
Settled(c) ==
    /\ calls[c].pc = "done"
    /\ calls' = [calls EXCEPT ![c] = NewCall]
    /\ UNCHANGED <<handle, ctor>>

(***************************************************************************)
(* Spec: one caller that awaits each call before it issues the next, over  *)
(* all the inputs above.                                                   *)
(***************************************************************************)
Next ==
    \/ Constructor
    \/ get_branches(1, Owners, Names)
    \/ get_columns(1, Owners, Names, Tables)
    \/ get_commits(1, Owners, Names)
    \/ get_databases(1, Lives)
    \/ delete_database(1, Names)
    \/ execute(1, Owners, Names, SqlTexts)
    \/ query(1, Owners, Names, SqlTexts)
    \/ make_request_direct(1, DirectParameters)
    \/ FetchReject(1, Rejections)
    \/ FetchResolve(1, Statuses)
    \/ JsonSettle(1, Bodies)
    \/ Settled(1)

Spec == Init /\ [][Next]_vars

(***************************************************************************)
(* SpecConcurrent: up to MaxCalls calls in flight at once on one handle,   *)
(* settling in any order.                                                  *)
(***************************************************************************)
ConcurrentNames == {JSString("db")}

ConcurrentSqlTexts == {JSString("SELECT 1")}

ConcurrentBodies == {"[]", "{\"error\":\"table not found\"}"}

ConcurrentRejections == {NewError("TypeError", "Failed to fetch")}

InitConcurrent ==
    /\ handle = <<NewHandle(JSString("secret"))>>
    /\ ctor = [arg |-> JSString("secret"), result |-> "returned", error |-> NoError]
    /\ calls = [c \in Calls |-> NewCall]

NextConcurrent ==
    \E c \in Calls :
        \/ get_branches(c, Owners, Names)
        \/ get_commits(c, Owners, Names)
        \/ query(c, Owners, ConcurrentNames, ConcurrentSqlTexts)
        \/ FetchReject(c, ConcurrentRejections)
        \/ FetchResolve(c, ConcurrentStatuses)
        \/ JsonSettle(c, ConcurrentBodies)

SpecConcurrent == InitConcurrent /\ [][NextConcurrent]_vars

(***************************************************************************)
(* Reading a transmitted body back, for the properties below.              *)
(***************************************************************************)
\* The values of the fields of a body that carry this name.
FieldValues(body, name) ==
    {body[i].value : i \in {j \in 1..Len(body) : body[j].name = name}}

\* The inverse of CharCode on one byte.
FromCharCode(n) ==
    CASE n \in 32..95 -> SubSeq(AsciiLow, n - 31, n - 31)
      [] n \in 97..126 -> SubSeq(AsciiHigh, n - 96, n - 96)
      [] n = 233 -> "é"
      [] OTHER -> "?"

Base64Index(ch) == IndexIn(Base64Alphabet, ch) - 1

\* Four-character groups over the alphabet, padded with = at the very end only.
IsBase64(s) ==
    /\ Len(s) % 4 = 0
    /\ \A i \in 1..Len(s) :
          \/ Base64Index(SubSeq(s, i, i)) >= 0
          \/ /\ SubSeq(s, i, i) = "="
             /\ i >= Len(s) - 1
             /\ (i = Len(s) - 1 => SubSeq(s, Len(s), Len(s)) = "=")

RECURSIVE Base64Decode(_)
\* The bytes a base64 text stands for.
Base64Decode(s) ==
    IF Len(s) < 4
    THEN <<>>
    ELSE LET a == Base64Index(SubSeq(s, 1, 1))
             b == Base64Index(SubSeq(s, 2, 2))
             c == Base64Index(SubSeq(s, 3, 3))
             d == Base64Index(SubSeq(s, 4, 4))
         IN  CASE SubSeq(s, 3, 3) = "=" -> <<a * 4 + b \div 16>>
               [] SubSeq(s, 4, 4) = "=" ->
                     <<a * 4 + b \div 16, (b % 16) * 16 + c \div 4>>
               [] OTHER ->
                     <<a * 4 + b \div 16, (b % 16) * 16 + c \div 4, (c % 4) * 64 + d>>
                     \o Base64Decode(SubSeq(s, 5, Len(s)))

RECURSIVE StringFromBytes(_)
StringFromBytes(bytes) ==
    IF bytes = <<>>
    THEN ""
    ELSE FromCharCode(bytes[1]) \o StringFromBytes(Tail(bytes))

\* What the service gets when it decodes a base64 field.
atob(s) == StringFromBytes(Base64Decode(s))

Operations ==
    {"get_branches", "get_columns", "get_commits", "get_databases",
     "delete_database", "execute", "query"}

\* The call got a response whose status is not 2xx.
NotOk(call) == call.bodyRead /\ ~ResponseOk(call.response.status)

(***************************************************************************)
(* C1.  Every dispatched body carries an apikey field with the handle's    *)
(* key, and when the caller's parameters hold a field named apikey, the    *)
(* caller's value is not transmitted as an apikey field (dispatcher wins). *)
(* The code appends the caller's field after its own: this fails.          *)
(***************************************************************************)
C1_DispatcherWins ==
    \A c \in Calls :
        calls[c].fetches > 0 =>
            /\ ToString(handle[1].api_key) \in FieldValues(calls[c].body, "apikey")
            /\ \A i \in 1..Len(calls[c].parameters) :
                  calls[c].parameters[i].key = "apikey" =>
                      ToString(calls[c].parameters[i].value)
                          \notin FieldValues(calls[c].body, "apikey")

(***************************************************************************)
(* C2.  A response that is not 2xx and whose body is a JSON object with an *)
(* error member makes the call fail, never return, with an error whose     *)
(* message holds the server's error text and the status code; 404 with     *)
(* {"error":"table not found"} fails with "table not found" and "404".     *)
(***************************************************************************)
HasErrorMember(text) ==
    /\ JSONParses(text)
    /\ JSONParse(text).t = "object"
    /\ \E i \in 1..Len(JSONParse(text).items) : JSONParse(text).items[i].k = "error"

C2_ApiErrorExposesMessageAndStatus ==
    \A c \in Calls :
        LET call == calls[c] IN
        (call.pc = "done" /\ NotOk(call) /\ HasErrorMember(call.response.text)) =>
            /\ call.outcome.kind = "throw"
            /\ \A i \in 1..Len(JSONParse(call.response.text).items) :
                  JSONParse(call.response.text).items[i].k = "error" =>
                      Includes(call.outcome.error.message,
                               JSONParse(call.response.text).items[i].s)
            /\ Includes(call.outcome.error.message,
                        NumberToString(call.response.status))
            /\ (call.response.status = 404
                  /\ call.response.text = "{\"error\":\"table not found\"}") =>
                      /\ Includes(call.outcome.error.message, "table not found")
                      /\ Includes(call.outcome.error.message, "404")

C2_Witness ==
    \E c \in Calls :
        /\ calls[c].pc = "done"
        /\ calls[c].response = [status |-> 404, text |-> "{\"error\":\"table not found\"}"]
        /\ calls[c].outcome.kind = "throw"
        /\ calls[c].outcome.error.message
              = "DBHub API error message: table not found [HTTP status: 404]"

(***************************************************************************)
(* C3.  A response that is not 2xx and whose body is not JSON still makes  *)
(* the call fail with an error that surfaces the status code.  The code    *)
(* lets the SyntaxError of response.json() escape: this fails.             *)
(***************************************************************************)
C3_StatusSurfacedWhenBodyUnparseable ==
    \A c \in Calls :
        LET call == calls[c] IN
        (call.pc = "done" /\ NotOk(call) /\ ~JSONParses(call.response.text)) =>
            /\ call.outcome.kind = "throw"
            /\ Includes(call.outcome.error.message,
                        NumberToString(call.response.status))

(***************************************************************************)
(* C4.  When fetch rejects, the call fails with an error that carries the  *)
(* transport failure (the rejection, or the failure the rejection itself   *)
(* names as its cause) as its cause and differs in kind from the error of  *)
(* a non-2xx response; no body is read and nothing is returned.  The code  *)
(* passes the rejection where the options of Error go: this fails.         *)
(***************************************************************************)
C4_TransportErrorCarriesCause ==
    \A c \in Calls :
        LET call == calls[c] IN
        (call.pc = "done" /\ call.rejection # NoError) =>
            /\ call.outcome.kind = "throw"
            /\ ~call.bodyRead
            /\ call.outcome.error.hasCause
            /\ \/ call.outcome.error.cause
                     = [name |-> call.rejection.name, message |-> call.rejection.message]
               \/ call.rejection.hasCause /\ call.outcome.error.cause = call.rejection.cause
            /\ call.outcome.error.name
                  # SettleJson(404, "{\"error\":\"table not found\"}").error.name

(***************************************************************************)
(* C5.  The request of every query and execute call carries dbowner and    *)
(* dbname as given and one sql field, which is the base64 encoding of the  *)
(* SQL text (the service decodes it back to that text) and not the text    *)
(* itself; "SELECT 1" travels as "U0VMRUNUIDE=".  (The empty text is its   *)
(* own encoding.)                                                          *)
(***************************************************************************)
C5_SqlIsBase64Encoded ==
    \A c \in Calls :
        LET call == calls[c] IN
        (call.op \in {"query", "execute"} /\ call.fetches > 0) =>
            /\ FieldValues(call.body, "dbowner") = {call.args[1].s}
            /\ FieldValues(call.body, "dbname") = {call.args[2].s}
            /\ Cardinality({i \in 1..Len(call.body) : call.body[i].name = "sql"}) = 1
            /\ \A v \in FieldValues(call.body, "sql") :
                  /\ IsBase64(v)
                  /\ atob(v) = call.args[3].s
                  /\ call.args[3].s # "" => v # call.args[3].s
                  /\ call.args[3].s = "SELECT 1" => v = "U0VMRUNUIDE="

C5_Witness ==
    \E c \in Calls :
        /\ calls[c].op = "query"
        /\ calls[c].fetches = 1
        /\ calls[c].args = <<JSString("owner"), JSString("db"), JSString("SELECT 1")>>
        /\ FieldValues(calls[c].body, "sql") = {"U0VMRUNUIDE="}

(***************************************************************************)
(* C6.  Every call of one of the seven operations issues exactly one       *)
(* request: never a second one, and none completes without its request.    *)
(* query and execute throw in btoa, before any request, on SQL text with a *)
(* code unit above 255: this fails.                                        *)
(***************************************************************************)
C6_ExactlyOneRequestPerCall ==
    \A c \in Calls :
        calls[c].op \in Operations =>
            /\ calls[c].fetches <= 1
            /\ calls[c].pc = "done" => calls[c].fetches = 1

(***************************************************************************)
(* C7.  A constructor call with an absent or empty API key throws and      *)
(* leaves no handle; one with a non-empty string returns a handle with     *)
(* that key; neither issues a request.                                     *)
(***************************************************************************)
EmptyOrAbsent(v) == v.t \in {"undefined", "null"} \/ (v.t = "string" /\ v.s = "")

C7_Construction ==
    [][ctor' # ctor =>
          /\ EmptyOrAbsent(ctor'.arg) =>
                /\ ctor'.result = "threw"
                /\ ctor'.error.message = "Missing required API key!"
                /\ handle' = <<>>
          /\ (ctor'.arg.t = "string" /\ ctor'.arg.s # "") =>
                /\ ctor'.result = "returned"
                /\ handle' # <<>>
                /\ handle'[1].api_key = ctor'.arg
          /\ calls' = calls]_vars

C7_Witness ==
    /\ ctor.arg = JSString("")
    /\ ctor.result = "threw"
    /\ handle = <<>>

(***************************************************************************)
(* C8.  With several calls in flight on one handle, in every interleaving  *)
(* and every order of arrival, the request of each call carries its own    *)
(* url and its own arguments, and each call settles with the result or the *)
(* error of its own response.                                              *)
(***************************************************************************)
OwnUrl(op) ==
    CASE op = "get_branches" -> "https://api.dbhub.io/v1/branches"
      [] op = "get_commits" -> "https://api.dbhub.io/v1/commits"
      [] op = "query" -> "https://api.dbhub.io/v1/query"
      [] OTHER -> ""

C8_CallsAreIndependent ==
    \A c \in Calls :
        LET call == calls[c] IN
        /\ call.fetches > 0 =>
              /\ call.url = OwnUrl(call.op)
              /\ call.method = "POST"
              /\ FieldValues(call.body, "apikey") = {"secret"}
              /\ FieldValues(call.body, "dbowner") = {call.args[1].s}
              /\ FieldValues(call.body, "dbname") = {call.args[2].s}
              /\ [i \in 1..Len(call.body) |-> call.body[i].name]
                    = IF call.op = "query"
                      THEN <<"apikey", "dbowner", "dbname", "sql">>
                      ELSE <<"apikey", "dbowner", "dbname">>
              /\ call.op = "query" =>
                    \A v \in FieldValues(call.body, "sql") : atob(v) = call.args[3].s
        /\ (call.pc = "done" /\ call.rejection # NoError) =>
              /\ call.outcome.kind = "throw"
              /\ call.outcome.error.message = "Fetch failed!"
        /\ (call.pc = "done" /\ call.rejection = NoError) =>
              IF ResponseOk(call.response.status)
              THEN call.outcome = Returned(JSONParse(call.response.text))
              ELSE /\ call.outcome.kind = "throw"
                   /\ Includes(call.outcome.error.message,
                               NumberToString(call.response.status))
                   /\ HasErrorMember(call.response.text) =>
                         Includes(call.outcome.error.message, "table not found")

\* The call issued second has settled while the one issued first still waits.
C8_Witness ==
    /\ calls[1].op = "get_branches"
    /\ calls[1].pc = "fetch"
    /\ calls[1].args = <<JSString("owner"), JSString("db")>>
    /\ calls[2].op = "get_commits"
    /\ calls[2].pc = "done"
    /\ calls[2].args = <<JSString("owner"), JSString("db2")>>
    /\ calls[2].outcome.kind = "return"

(***************************************************************************)
(* C9.  A 2xx response makes the call return the decoded JSON body as it   *)
(* is: get_databases answered 200 with [] returns an empty list, neither   *)
(* null nor an error.                                                      *)
(***************************************************************************)
C9_SuccessReturnsBodyUnchanged ==
    \A c \in Calls :
        LET call == calls[c] IN
        (call.pc = "done" /\ call.bodyRead /\ ResponseOk(call.response.status)
            /\ JSONParses(call.response.text)) =>
            /\ call.outcome.kind = "return"
            /\ call.outcome.value = JSONParse(call.response.text)
            /\ call.response.text = "[]" =>
                  call.outcome.value = [t |-> "array", s |-> "", items |-> <<>>]
            /\ call.response.text = "null" => call.outcome.value.t = "null"

C9_Witness ==
    \E c \in Calls :
        /\ calls[c].pc = "done"
        /\ calls[c].op = "get_databases"
        /\ calls[c].args = <<JSUndefined>>
        /\ FieldValues(calls[c].body, "live") = {"false"}
        /\ calls[c].response = [status |-> 200, text |-> "[]"]
        /\ calls[c].outcome.kind = "return"
        /\ calls[c].outcome.value.t = "array"

====
